---- MODULE Spec2Model ----
(***************************************************************************)
(* LineReader (mgmeyers/LineReader): reads a File in chunkSize slices with *)
(* a FileReader and emits it one line at a time; the consumer asks for the *)
(* next line by calling the `next` continuation handed over with a line.   *)
(*                                                                         *)
(* Text is a sequence of one-character strings.  The engine's operations   *)
(* are operators from a record of the engine's fields to the record after  *)
(* the call; the actions apply them to the variables.                      *)
(***************************************************************************)
EXTENDS Integers, Sequences, FiniteSets, TLC

\* ------------------------------------------------------------------ bounds
MaxLen == 2
MaxChunk == 4
MaxSessions == 2

LF == "\n"
CR == "\r"
Alphabet == {"a", LF, CR}

\* the scenario of the specification: "a\nbb\nccc"
ExampleFile == <<"a", LF, "b", "b", LF, "c", "c", "c">>

\* files of distinct lines: "a\nb\n", "a\r\nb", "a\rb", "a\n\nb\n" and the
\* scenario
SampleFiles == {<<"a", LF, "b", LF>>, <<"a", CR, LF, "b">>, <<"a", CR, "b">>,
                <<"a", LF, LF, "b", LF>>, ExampleFile}

\* every text over the alphabet up to MaxLen characters, and the samples
Files == UNION {[1..n -> Alphabet] : n \in 0..MaxLen} \cup SampleFiles
ChunkSizes == 1..MaxChunk
EventNames == {"line", "error", "end"}
Causes == {"NotReadableError", "NotFoundError"}

\* ------------------------------------------------------------------ state
VARIABLES
    file,         \* internals.file: the text of the File being read
    fileLength,   \* internals.fileLength
    readPos,      \* internals.readPos
    chunk,        \* internals.chunk
    lines,        \* internals.lines (when it is an array)
    linesNull,    \* internals.lines is null (String#match found nothing)
    canRead,      \* internals.canRead
    chunkSize,    \* internals.chunkSize
    events,       \* names of internals.events bound to a function
    loading,      \* internals.reader has a read in flight
    blob,         \* the slice handed to readAsText, its result on load
    readerError,  \* internals.reader.error
    pending,      \* the continuation the consumer holds: none, step or end
    trace,        \* the _emit calls of the current session, in order
    thrown,       \* an exception escaped a callback in the current session
    nreads,       \* readAsText calls of the current session
    session,      \* read(file) calls so far
    abortSession, \* last session that abort() was called in the course of
    prevEnded,    \* the session before the current one had emitted end
    overlap,      \* readAsText was called while a read was in flight
    raised,       \* the exception the last read() call threw at its caller
    extraReads    \* read() calls without a file made by the consumer

vars == <<file, fileLength, readPos, chunk, lines, linesNull, canRead,
          chunkSize, events, loading, blob, readerError, pending, trace,
          thrown, nreads, session, abortSession, prevEnded, overlap, raised,
          extraReads>>

\* the engine as one record
S == [file |-> file, fileLength |-> fileLength, readPos |-> readPos,
      chunk |-> chunk, lines |-> lines, linesNull |-> linesNull,
      canRead |-> canRead, chunkSize |-> chunkSize, events |-> events,
      loading |-> loading, blob |-> blob, readerError |-> readerError,
      pending |-> pending, trace |-> trace, thrown |-> thrown,
      nreads |-> nreads, session |-> session, abortSession |-> abortSession,
      prevEnded |-> prevEnded, overlap |-> overlap, raised |-> raised,
      extraReads |-> extraReads]

Set(r) ==
    /\ file' = r.file
    /\ fileLength' = r.fileLength
    /\ readPos' = r.readPos
    /\ chunk' = r.chunk
    /\ lines' = r.lines
    /\ linesNull' = r.linesNull
    /\ canRead' = r.canRead
    /\ chunkSize' = r.chunkSize
    /\ events' = r.events
    /\ loading' = r.loading
    /\ blob' = r.blob
    /\ readerError' = r.readerError
    /\ pending' = r.pending
    /\ trace' = r.trace
    /\ thrown' = r.thrown
    /\ nreads' = r.nreads
    /\ session' = r.session
    /\ abortSession' = r.abortSession
    /\ prevEnded' = r.prevEnded
    /\ overlap' = r.overlap
    /\ raised' = r.raised
    /\ extraReads' = r.extraReads

\* ------------------------------------------------------------------ text
Min(a, b) == IF a < b THEN a ELSE b

IsTerminator(c) == c \in {CR, LF}

\* a position given to Blob#slice: a negative one counts from the end, and
\* the result is clamped to 0 .. size
Clamp(x, size) == IF x < 0
                  THEN (IF size + x < 0 THEN 0 ELSE size + x)
                  ELSE Min(x, size)

\* Blob#slice(start, end): the characters start .. end-1, clamped to the size
Slice(f, start, end) ==
    SubSeq(f, Clamp(start, Len(f)) + 1, Clamp(end, Len(f)))

\* /\r|\n/.test(text)
HasNewline(text) == \E i \in 1..Len(text) : IsTerminator(text[i])

\* text.match(/[^\r\n]+/g): the maximal runs of characters that are neither
\* \r nor \n, in order; <<>> stands for the null that match returns when
\* there is no run
RECURSIVE MatchFrom(_, _, _)
MatchFrom(text, i, run) ==
    IF i > Len(text)
    THEN IF run = <<>> THEN <<>> ELSE <<run>>
    ELSE IF IsTerminator(text[i])
         THEN IF run = <<>>
              THEN MatchFrom(text, i + 1, <<>>)
              ELSE <<run>> \o MatchFrom(text, i + 1, <<>>)
         ELSE MatchFrom(text, i + 1, Append(run, text[i]))

MatchLines(text) == MatchFrom(text, 1, <<>>)

Front(s) == SubSeq(s, 1, Len(s) - 1)
Last(s) == s[Len(s)]

\* ------------------------------------------------------------------ engine
\* a slip in _hasMoreData: tests the start of the slice just requested
HasMoreDataAtSliceStart(s) == s.readPos - s.chunkSize <= s.fileLength

\* a slip in _hasMoreData: a position equal to the length counts as the end
HasMoreDataStrict(s) == s.readPos < s.fileLength

\* LineReader#_hasMoreData
HasMoreData(s) == s.readPos <= s.fileLength

\* LineReader#_emit: the call is recorded; a bound line handler receives the
\* continuation `next`
Emit(s, ev, arg, next) ==
    [s EXCEPT !.trace = Append(@, [ev |-> ev, arg |-> arg]),
              !.pending = IF ev = "line" /\ ev \in s.events THEN next ELSE @]

\* LineReader#read: with a file it resets the session, then slices, advances
\* readPos and starts the read (readAsText clears the reader's error)
Read(s, hasFile, f) ==
    LET r == IF hasFile
             THEN [s EXCEPT !.file = f, !.fileLength = Len(f), !.readPos = 0,
                            !.chunk = <<>>, !.lines = <<>>, !.linesNull = FALSE]
             ELSE s
    IN [r EXCEPT !.blob = Slice(r.file, r.readPos, r.readPos + r.chunkSize),
                 !.readPos = r.readPos + r.chunkSize,
                 !.loading = TRUE,
                 !.overlap = @ \/ r.loading,
                 !.readerError = "none",
                 !.nreads = @ + 1]

\* a slip in _step: the queue counts as drained with one line still in it
StepReadsEarly(s) ==
    IF s.linesNull
    THEN [s EXCEPT !.thrown = TRUE]
    ELSE IF Len(s.lines) <= 1
         THEN IF HasMoreData(s)
              THEN Read(s, FALSE, <<>>)
              ELSE Emit(s, "end", <<>>, "none")
         ELSE IF s.canRead
              THEN Emit([s EXCEPT !.lines = Tail(@)], "line", Head(s.lines), "step")
              ELSE Emit(s, "end", <<>>, "none")

\* a slip in _step: the next chunk is requested along with the last queued
\* line
StepPrefetches(s) ==
    IF s.linesNull
    THEN [s EXCEPT !.thrown = TRUE]
    ELSE IF Len(s.lines) = 0
         THEN IF HasMoreData(s)
              THEN Read(s, FALSE, <<>>)
              ELSE Emit(s, "end", <<>>, "none")
         ELSE IF s.canRead
              THEN LET r == Emit([s EXCEPT !.lines = Tail(@)], "line",
                                 Head(s.lines), "step")
                   IN  IF Len(r.lines) = 0 /\ HasMoreData(r)
                       THEN Read(r, FALSE, <<>>)
                       ELSE r
              ELSE Emit(s, "end", <<>>, "none")

\* LineReader#_step
Step(s) ==
    IF s.linesNull
    THEN [s EXCEPT !.thrown = TRUE]            \* null.length: TypeError
    ELSE IF Len(s.lines) = 0
         THEN IF HasMoreData(s)
              THEN Read(s, FALSE, <<>>)
              ELSE Emit(s, "end", <<>>, "none")
         ELSE IF s.canRead
              THEN Emit([s EXCEPT !.lines = Tail(@)], "line", Head(s.lines), "step")
              ELSE Emit(s, "end", <<>>, "none")

\* a slip in onload: a chunk that ends with a newline is kept as the residue
OnloadKeepsChunk(s) ==
    LET m == MatchLines(s.chunk)
        isNull == m = <<>>
        r == [s EXCEPT !.lines = m, !.linesNull = isNull]
    IN  IF HasMoreData(r)
        THEN IF Last(r.chunk) = LF
             THEN Step(r)
             ELSE IF isNull
                  THEN [r EXCEPT !.thrown = TRUE]
                  ELSE Step([r EXCEPT !.chunk = Last(m), !.lines = Front(m)])
        ELSE Step(r)

\* internals.reader.onload, the branch of a chunk that holds a newline
OnloadSplit(s) ==
    LET m == MatchLines(s.chunk)
        isNull == m = <<>>
        r == [s EXCEPT !.lines = m, !.linesNull = isNull]
    IN  IF HasMoreData(r)
        THEN IF Last(r.chunk) = LF
             THEN Step([r EXCEPT !.chunk = <<>>])
             ELSE IF isNull
                  THEN [r EXCEPT !.thrown = TRUE]   \* null.pop(): TypeError
                  ELSE Step([r EXCEPT !.chunk = Last(m), !.lines = Front(m)])
        ELSE Step(r)

\* a slip in onload: the residual chunk is flushed without the length test
OnloadFlushesEmpty(s) ==
    IF HasMoreData(s)
    THEN Read(s, FALSE, <<>>)
    ELSE Emit(s, "line", s.chunk, "end")

\* internals.reader.onload, the branch of a chunk without a newline
OnloadNoNewline(s) ==
    IF HasMoreData(s)
    THEN Read(s, FALSE, <<>>)
    ELSE IF Len(s.chunk) > 0
         THEN Emit(s, "line", s.chunk, "end")
         ELSE Emit(s, "end", <<>>, "none")

\* internals.reader.onload
Onload(s) ==
    LET r == [s EXCEPT !.chunk = @ \o s.blob, !.loading = FALSE]
    IN  IF HasNewline(r.chunk) THEN OnloadSplit(r) ELSE OnloadNoNewline(r)

\* a slip in onerror: the failure also ends the session
OnerrorThenEnd(s) ==
    Emit(Emit([s EXCEPT !.loading = FALSE], "error", <<s.readerError>>, "none"),
         "end", <<>>, "none")

\* internals.reader.onerror
Onerror(s) ==
    Emit([s EXCEPT !.loading = FALSE], "error", <<s.readerError>>, "none")

\* a read is in flight or a line is with the consumer
InProgress(s) == s.loading \/ s.pending # "none"

\* a slip in abort: it emits end at once
AbortThenEnd(s) ==
    Emit([s EXCEPT !.canRead = FALSE,
                   !.abortSession = IF InProgress(s) THEN s.session ELSE @],
         "end", <<>>, "none")

\* LineReader#abort
AbortOp(s) ==
    [s EXCEPT !.canRead = FALSE,
              !.abortSession = IF InProgress(s) THEN s.session ELSE @]

\* the consumer calls the continuation it was handed
NextOp(s) ==
    IF s.pending = "step"
    THEN Step([s EXCEPT !.pending = "none"])
    ELSE Emit([s EXCEPT !.pending = "none"], "end", <<>>, "none")

\* LineReader#on
OnOp(s, name, isFunction) ==
    [s EXCEPT !.events = IF isFunction THEN @ \cup {name} ELSE @ \ {name}]

\* ------------------------------------------------------------------ actions
\* new LineReader({chunkSize: c})
Init ==
    /\ file = <<>>
    /\ fileLength = 0
    /\ readPos = 0
    /\ chunk = <<>>
    /\ lines = <<>>
    /\ linesNull = FALSE
    /\ canRead = TRUE
    /\ chunkSize \in ChunkSizes
    /\ events = {}
    /\ loading = FALSE
    /\ blob = <<>>
    /\ readerError = "none"
    /\ pending = "none"
    /\ trace = <<>>
    /\ thrown = FALSE
    /\ nreads = 0
    /\ session = 0
    /\ abortSession = 0
    /\ prevEnded = FALSE
    /\ overlap = FALSE
    /\ raised = "none"
    /\ extraReads = 0

\* lr.on(name, cb), before the first session
On ==
    /\ session = 0
    /\ \E name \in EventNames, isFunction \in BOOLEAN :
          /\ OnOp(S, name, isFunction) # S
          /\ Set(OnOp(S, name, isFunction))

\* lr.read(file), when no read is in flight and no line is with the consumer
ReadFile ==
    /\ ~loading
    /\ pending = "none"
    /\ session < MaxSessions
    /\ \E f \in Files :
          Set(Read([S EXCEPT !.session = @ + 1, !.trace = <<>>,
                             !.thrown = FALSE, !.nreads = 0,
                             !.prevEnded = \E i \in 1..Len(trace) :
                                              trace[i].ev = "end"],
                   TRUE, f))

\* the FileReader completes the read
Load ==
    /\ loading
    /\ Set(Onload(S))

\* the FileReader fails the read
Fail ==
    /\ loading
    /\ \E c \in Causes : Set(Onerror([S EXCEPT !.readerError = c]))

\* lr.abort()
Abort ==
    /\ AbortOp(S) # S
    /\ Set(AbortOp(S))

\* the consumer calls next()
Ack ==
    /\ pending # "none"
    /\ Set(NextOp(S))

Next == On \/ ReadFile \/ Load \/ Fail \/ Abort \/ Ack

Spec == Init /\ [][Next]_vars

\* ------------------------------------------------------------------ runs
\* the engine right after new LineReader({chunkSize: c}) and the on() calls
\* that bound evs
Fresh(c, evs) ==
    [file |-> <<>>, fileLength |-> 0, readPos |-> 0, chunk |-> <<>>,
     lines |-> <<>>, linesNull |-> FALSE, canRead |-> TRUE, chunkSize |-> c,
     events |-> evs, loading |-> FALSE, blob |-> <<>>, readerError |-> "none",
     pending |-> "none", trace |-> <<>>, thrown |-> FALSE, nreads |-> 0,
     session |-> 0, abortSession |-> 0, prevEnded |-> FALSE,
     overlap |-> FALSE, raised |-> "none", extraReads |-> 0]

\* the session run to its rest: every read loads, every line is acknowledged
RECURSIVE RunToRest(_)
RunToRest(s) ==
    IF s.loading THEN RunToRest(Onload(s))
    ELSE IF s.pending # "none" THEN RunToRest(NextOp(s))
    ELSE s

\* the _emit calls of a freshly constructed engine reading f
FreshTrace(f, c, evs) == RunToRest(Read(Fresh(c, evs), TRUE, f)).trace

\* ------------------------------------------------------------------ observations
LineEvent(text) == [ev |-> "line", arg |-> text]
EndEvent == [ev |-> "end", arg |-> <<>>]
ErrorEvent(cause) == [ev |-> "error", arg |-> <<cause>>]

IsLine(e) == e.ev = "line"
IsEnd(e) == e.ev = "end"
IsError(e) == e.ev = "error"

LineEvents(tr) == SelectSeq(tr, IsLine)
Texts(tr) == [i \in 1..Len(LineEvents(tr)) |-> LineEvents(tr)[i].arg]
EndCount(tr) == Len(SelectSeq(tr, IsEnd))
ErrorCount(tr) == Len(SelectSeq(tr, IsError))
AsLines(texts) == [i \in 1..Len(texts) |-> LineEvent(texts[i])]

Started == session >= 1
Errored == ErrorCount(trace) > 0
NeverAborted == canRead
\* nothing is in flight and no line is with the consumer
AtRest == Started /\ ~loading /\ pending = "none"
\* a session whose consumer takes lines and whose reads all succeeded
Served == Started /\ "line" \in events /\ ~Errored

\* the text split at every \n: the terminated lines, then the rest
RECURSIVE SplitLF(_, _)
SplitLF(text, run) ==
    IF text = <<>> THEN <<run>>
    ELSE IF Head(text) = LF
         THEN <<run>> \o SplitLF(Tail(text), <<>>)
         ELSE SplitLF(Tail(text), Append(run, Head(text)))

\* a line without the \r of a \r\n terminator
StripCR(l) == IF l # <<>> /\ Last(l) = CR THEN Front(l) ELSE l

\* the logical lines of a text: the lines terminated by \n or \r\n, then the
\* unterminated rest when there is one
LogicalLines(text) ==
    LET parts == SplitLF(text, <<>>)
        terminated == [i \in 1..(Len(parts) - 1) |-> StripCR(parts[i])]
    IN  IF Last(parts) = <<>> THEN terminated
        ELSE Append(terminated, Last(parts))

\* the only \r of the text are those of a \r\n
NoLoneCR(text) ==
    \A i \in 1..Len(text) :
        text[i] = CR => (i < Len(text) /\ text[i + 1] = LF)

\* the text is a concatenation of lines each terminated by \n
AllTerminated(text) == text = <<>> \/ Last(text) = LF

\* ------------------------------------------------------------------ claims

\* C1: a file that is N lines, each terminated by \n (empty lines allowed),
\* read to its rest by an acknowledging consumer, has emitted exactly those
\* N lines in order, without their terminators, and then end.  Stated of the
\* sessions in which no exception escaped a callback.
C1_TerminatedLinesThenEnd ==
    (Served /\ NeverAborted /\ AtRest /\ ~thrown /\ AllTerminated(file))
        => trace = Append(AsLines(LogicalLines(file)), EndEvent)

\* C2: the lines delivered reading in chunkSize slices are the lines
\* delivered reading the whole file as one chunk.  Stated of the sessions in
\* which no exception escaped a callback.
C2_ChunkBoundaryInvariance ==
    (Served /\ NeverAborted /\ AtRest /\ ~thrown)
        => Texts(trace) = Texts(FreshTrace(file, Len(file) + 1, events))

\* C3: once abort() has been called no line event is emitted.
C3_NoLineAfterAbort ==
    [][(~canRead /\ "line" \in events /\ session' = session)
           => LineEvents(trace') = LineEvents(trace)]_vars

\* C4: a session aborted before its lines are consumed, whose reads load
\* and whose handed-out lines are acknowledged, has emitted end exactly once.
C4_AbortedSessionEndsOnce ==
    (Served /\ abortSession = session /\ AtRest) => EndCount(trace) = 1

\* a line is with the consumer, who has not yet called next()
Waiting == pending # "none"

\* the step delivers exactly one thing: a chunk read, or one line or end event
OneDelivery ==
    \/ /\ nreads' = nreads + 1
       /\ loading'
       /\ trace' = trace
    \/ /\ nreads' = nreads
       /\ ~loading'
       /\ Len(trace') = Len(trace) + 1
       /\ SubSeq(trace', 1, Len(trace)) = trace
       /\ Last(trace').ev \in {"line", "end"}

\* C5: while a line is with the consumer no read is in flight, and every step
\* other than the consumer's next() leaves readPos, chunk, lines and the
\* emitted events as they are; a next() delivers exactly one thing.
C5_Backpressure ==
    [][Waiting =>
          /\ ~loading
          /\ IF Ack
             THEN OneDelivery
             ELSE UNCHANGED <<readPos, chunk, lines, linesNull, trace,
                              nreads, loading, pending>>]_vars

\* the first line was acknowledged and the second is with the consumer
C5_Witness ==
    /\ pending = "step"
    /\ Len(LineEvents(trace)) >= 2

\* the text after the last \r or \n
RECURSIVE FinalFragment(_)
FinalFragment(text) ==
    IF text = <<>> \/ IsTerminator(Last(text)) THEN <<>>
    ELSE Append(FinalFragment(Front(text)), Last(text))

\* C6: a file that does not end with a terminator has, at rest, delivered
\* its final fragment as one line right before the single end.  Stated of
\* the files whose terminators are \n or \r\n.
C6_FinalFragmentThenEnd ==
    (Served /\ NeverAborted /\ AtRest /\ NoLoneCR(file)
        /\ file # <<>> /\ ~IsTerminator(Last(file)))
        => /\ Len(trace) >= 2
           /\ trace[Len(trace) - 1] = LineEvent(FinalFragment(file))
           /\ Last(trace) = EndEvent
           /\ EndCount(trace) = 1

\* terminator-free text shorter than a chunk
ShortPlain(text, size) == ~HasNewline(text) /\ Len(text) < size

\* what a session of one line may have emitted so far
OneLineSession(text) ==
    /\ nreads = 1
    /\ loading => trace = <<>>
    /\ ~loading => trace \in {<<LineEvent(text)>>, <<LineEvent(text), EndEvent>>}
    /\ (~loading /\ "line" \in events) =>
          (pending = "end" <=> trace = <<LineEvent(text)>>)
    /\ (~loading /\ "line" \in events /\ pending = "none") =>
          trace = <<LineEvent(text), EndEvent>>

\* C7 as stated: every file of terminator-free content shorter than
\* chunkSize yields one line with the full content, then end, in one read.
C7_ShortFileOneLine ==
    (Started /\ ~Errored /\ ShortPlain(file, chunkSize)) => OneLineSession(file)

\* C7 as amended: the same of every such file that is not empty.
C7_ShortNonEmptyFileOneLine ==
    (Started /\ ~Errored /\ ShortPlain(file, chunkSize) /\ file # <<>>)
        => OneLineSession(file)

\* the one line was acknowledged and end followed
C7_Witness ==
    /\ Served
    /\ ShortPlain(file, chunkSize)
    /\ file # <<>>
    /\ trace = <<LineEvent(file), EndEvent>>

\* the characters delivered as lines
RECURSIVE TotalLen(_)
TotalLen(texts) ==
    IF texts = <<>> THEN 0 ELSE Len(Head(texts)) + TotalLen(Tail(texts))

\* C8: a failed chunk read emits one error event carrying the cause and
\* leaves readPos, chunk and lines as they are; after it the session emits
\* nothing, reads nothing, has delivered no text of the failing chunk or
\* beyond, and has emitted no end.
C8_ReadFailure ==
    [][/\ Fail =>
            /\ trace' = Append(trace, ErrorEvent(readerError'))
            /\ readerError' \in Causes
            /\ ~loading' /\ pending' = "none"
            /\ UNCHANGED <<readPos, chunk, lines, linesNull, nreads>>
       /\ Errored =>
            /\ ErrorCount(trace) = 1
            /\ EndCount(trace) = 0
            /\ Last(trace) = ErrorEvent(readerError)
            /\ ~loading /\ pending = "none"
            /\ TotalLen(Texts(trace)) <= readPos - chunkSize
            /\ session' = session =>
                  UNCHANGED <<trace, nreads, loading, pending, readPos,
                              chunk, lines, linesNull>>]_vars

\* the second chunk request failed after a line of the first was delivered
C8_Witness ==
    /\ Errored
    /\ nreads >= 2
    /\ Len(LineEvents(trace)) >= 1

\* a chunk boundary inside the file has a terminator right before or after it
TerminatorAtBoundary(text, size) ==
    \E i \in 1..(Len(text) - 1) :
        /\ i % size = 0
        /\ IsTerminator(text[i]) \/ IsTerminator(text[i + 1])

\* C9: with a terminator (\n or \r\n) at or across a chunk boundary, the
\* lines delivered at rest are exactly the logical lines of the content.
C9_BoundaryTerminator ==
    (Served /\ NeverAborted /\ AtRest /\ NoLoneCR(file)
        /\ TerminatorAtBoundary(file, chunkSize))
        => Texts(trace) = LogicalLines(file)

\* C10: a session started on an engine whose previous session had emitted
\* end, and not aborted in its course, has at rest emitted what a freshly
\* constructed engine emits for the file.
C10_ReuseAsFresh ==
    (Served /\ session >= 2 /\ prevEnded /\ abortSession # session /\ AtRest)
        => trace = FreshTrace(file, chunkSize, events)

\* C11: a zero-byte file is read once, the read returns no text, and the
\* session emits end alone.
C11_EmptyFileEndsAtOnce ==
    (Started /\ file = <<>> /\ ~Errored)
        => /\ nreads = 1
           /\ blob = <<>>
           /\ pending = "none"
           /\ loading => trace = <<>>
           /\ ~loading => trace = <<EndEvent>>

\* the one read of an empty file has completed
C11_Witness ==
    /\ Started
    /\ file = <<>>
    /\ ~loading
    /\ trace = <<EndEvent>>

\* C13: with a line handler that acknowledges every line and reads that all
\* succeed, the session at rest has emitted end exactly once, as its last
\* event.
C13_SessionTerminates ==
    (Served /\ AtRest)
        => /\ EndCount(trace) = 1
           /\ Last(trace) = EndEvent

\* C14: no read is ever requested while another is in flight.
C14_OneReadInFlight == ~overlap

\* a later chunk is in flight after an abort during the session
C14_Witness ==
    /\ loading
    /\ nreads >= 2
    /\ abortSession = session
    /\ Len(LineEvents(trace)) >= 1

\* C15: while a chunk is read nothing is queued, so the lines of a completed
\* chunk replace no queued line; and a queued line leaves the queue only as
\* the head, delivered by a line event, unless the session is aborted.
C15_QueueIsFifo ==
    [][/\ loading => (lines = <<>> /\ ~linesNull)
       /\ (lines # <<>> /\ canRead /\ session' = session) =>
             \/ lines' = lines /\ trace' = trace
             \/ /\ lines' = Tail(lines)
                /\ trace' = Append(trace, LineEvent(Head(lines)))]_vars

\* a chunk of two lines completed: one is delivered, one is queued
C15_Witness ==
    /\ Len(lines) >= 1
    /\ pending = "step"
    /\ canRead

\* C19: no chunk completion leaves lines null or lets an exception escape.
C19_TerminatorsOnlyChunk == ~linesNull /\ ~thrown

\* the session ran to its end event and was never aborted
RanToEnd == Started /\ NeverAborted /\ ~Errored /\ EndCount(trace) >= 1

\* C16: every read is issued at a position no greater than the file length,
\* a read issued exactly at the file length returns no text, and a session
\* that runs to end has issued floor(fileLength / chunkSize) + 1 reads.
C16_ReadCount ==
    Started =>
        /\ readPos = nreads * chunkSize
        /\ readPos - chunkSize <= fileLength
        /\ (readPos - chunkSize = fileLength) => blob = <<>>
        /\ RanToEnd => nreads = (fileLength \div chunkSize) + 1
C16_Witness ==
    /\ RanToEnd
    /\ fileLength > 0
    /\ fileLength % chunkSize = 0
    /\ nreads = (fileLength \div chunkSize) + 1
    /\ blob = <<>>
    /\ Len(LineEvents(trace)) >= 1

RECURSIVE Concat(_)
Concat(texts) ==
    IF texts = <<>> THEN <<>> ELSE Head(texts) \o Concat(Tail(texts))
WithoutTerminators(text) == SelectSeq(text, LAMBDA c : ~IsTerminator(c))

\* C18: when a session has run to end, the delivered line texts put together
\* are the file without its \r and \n characters, and no delivered line is
\* empty or holds a \r or \n.
C18_NoTextLostOrDuplicated ==
    RanToEnd =>
        /\ Concat(Texts(trace)) = WithoutTerminators(file)
        /\ \A i \in 1..Len(Texts(trace)) :
              /\ Texts(trace)[i] # <<>>
              /\ ~HasNewline(Texts(trace)[i])
C18_Witness ==
    /\ RanToEnd
    /\ nreads >= 3
    /\ Len(Texts(trace)) >= 2
    /\ HasNewline(file)
    /\ Last(file) # LF

\* ------------------------------------------------- calls out of sequence
MaxExtraReads == 1

\* lr.read() with no argument, as the consumer may call it in any state:
\* before any session internals.file is undefined and file.slice throws a
\* TypeError; while a read is in flight readPos is advanced and then
\* readAsText throws an InvalidStateError; otherwise a read starts
PublicRead(s) ==
    IF s.session = 0
    THEN [s EXCEPT !.raised = "TypeError"]
    ELSE IF s.loading
         THEN [s EXCEPT !.readPos = @ + s.chunkSize,
                        !.raised = "InvalidStateError"]
         ELSE Read(s, FALSE, <<>>)

\* the consumer calls lr.read() while no line is with it
ReadAgain ==
    /\ extraReads < MaxExtraReads
    /\ pending = "none"
    /\ Set([PublicRead(S) EXCEPT !.extraReads = @ + 1])

NextMisuse == Next \/ ReadAgain

SpecMisuse == Init /\ [][NextMisuse]_vars

\* C12: no call of read, abort or on lets an exception escape to the caller.
C12_NoSynchronousThrow == raised = "none"

\* ------------------------------------------------- constructor options
DefaultChunkSize == 1024
MaxReads == 4

\* the options argument of the constructor: omitted, or with a chunkSize
Options == {[given |-> FALSE, chunkSize |-> 0]}
               \cup {[given |-> TRUE, chunkSize |-> n] : n \in -1..MaxChunk}

\* ( options && options.chunkSize ) ? options.chunkSize : 1024
ChunkSizeOption(o) ==
    IF o.given /\ o.chunkSize # 0 THEN o.chunkSize ELSE DefaultChunkSize

\* new LineReader(options)
InitOptions ==
    /\ file = <<>>
    /\ fileLength = 0
    /\ readPos = 0
    /\ chunk = <<>>
    /\ lines = <<>>
    /\ linesNull = FALSE
    /\ canRead = TRUE
    /\ chunkSize \in {ChunkSizeOption(o) : o \in Options}
    /\ events = {}
    /\ loading = FALSE
    /\ blob = <<>>
    /\ readerError = "none"
    /\ pending = "none"
    /\ trace = <<>>
    /\ thrown = FALSE
    /\ nreads = 0
    /\ session = 0
    /\ abortSession = 0
    /\ prevEnded = FALSE
    /\ overlap = FALSE
    /\ raised = "none"
    /\ extraReads = 0

\* the FileReader completes one of the first MaxReads reads of a session
LoadCapped == nreads < MaxReads /\ Load

\* the consumer calls next() within the first MaxReads reads of a session
AckCapped == nreads < MaxReads /\ Ack

NextOptions == On \/ ReadFile \/ LoadCapped \/ Fail \/ Abort \/ AckCapped

SpecOptions == InitOptions /\ [][NextOptions]_vars

\* C17: every engine has a positive chunkSize, and each read of a session
\* moves readPos forward.
C17_PositiveChunkSize ==
    Started => /\ chunkSize > 0
               /\ readPos >= nreads

\* ------------------------------------- the file-bound variant (LineReader.js)
FbChunkSize == 1024

\* LineReader#read of the variant: slices, advances readPos and starts the
\* read (readAsBinaryString yields one character per byte, which for the
\* one-byte characters of the alphabet is the text itself)
FbRead(s) ==
    [s EXCEPT !.blob = Slice(s.file, s.readPos, s.readPos + s.chunkSize),
              !.readPos = s.readPos + s.chunkSize,
              !.loading = TRUE,
              !.nreads = @ + 1]

\* LineReader#_step of the variant: an empty queue starts a read whatever
\* readPos is; a line is handed over only to a bound handler while canRead
FbStep(s) ==
    IF Len(s.lines) = 0
    THEN FbRead(s)
    ELSE IF "line" \in s.events /\ s.canRead
         THEN [s EXCEPT !.lines = Tail(@),
                        !.trace = Append(@, LineEvent(Head(s.lines))),
                        !.pending = "step"]
         ELSE s

\* internals.reader.onload of the variant: self._hasMoreData is the function
\* itself, never its result, so the last part is always popped; a chunk
\* without \n is left alone
FbOnload(s) ==
    LET r == [s EXCEPT !.chunk = @ \o s.blob, !.loading = FALSE]
        parts == SplitLF(r.chunk, <<>>)
    IN  IF \E i \in 1..Len(r.chunk) : r.chunk[i] = LF
        THEN FbStep([r EXCEPT !.lines = Front(parts), !.chunk = Last(parts)])
        ELSE r

\* new LineReader(file)
FbInit ==
    /\ file \in Files
    /\ fileLength = Len(file)
    /\ readPos = 0
    /\ chunk = <<>>
    /\ lines = <<>>
    /\ linesNull = FALSE
    /\ canRead = TRUE
    /\ chunkSize = FbChunkSize
    /\ events = {}
    /\ loading = FALSE
    /\ blob = <<>>
    /\ readerError = "none"
    /\ pending = "none"
    /\ trace = <<>>
    /\ thrown = FALSE
    /\ nreads = 0
    /\ session = 0
    /\ abortSession = 0
    /\ prevEnded = FALSE
    /\ overlap = FALSE
    /\ raised = "none"
    /\ extraReads = 0

\* lr.on(name, cb), before the read is started
FbOn ==
    /\ session = 0
    /\ \E name \in EventNames, isFunction \in BOOLEAN :
          /\ OnOp(S, name, isFunction) # S
          /\ Set(OnOp(S, name, isFunction))

\* lr.read(), called once by the consumer
FbStart ==
    /\ session = 0
    /\ Set(FbRead([S EXCEPT !.session = 1]))

\* the FileReader completes the read
FbLoad ==
    /\ loading
    /\ Set(FbOnload(S))

\* lr.stop()
FbStop ==
    /\ canRead
    /\ Set([S EXCEPT !.canRead = FALSE])

\* the consumer calls next()
FbAck ==
    /\ pending = "step"
    /\ Set(FbStep([S EXCEPT !.pending = "none"]))

FbNext == FbOn \/ FbStart \/ FbLoad \/ FbStop \/ FbAck

SpecFileBound == FbInit /\ [][FbNext]_vars

\* the lines of a text as split('\n') gives them, the unterminated last one
\* included when it is not empty
LinesOfFile(text) ==
    LET parts == SplitLF(text, <<>>)
    IN  IF Last(parts) = <<>> THEN Front(parts) ELSE parts

\* C20: in the file-bound variant, once nothing is in flight and no line is
\* with the consumer, a consumer that took and acknowledged every line has
\* been handed every line of the file, the last one included, once and in
\* order.
C20_FileBoundDeliversAllLines ==
    (Started /\ ~loading /\ pending = "none" /\ "line" \in events /\ canRead)
        => Texts(trace) = LinesOfFile(file)

====
